---- MODULE Spec2Model ----
(***************************************************************************)
(* Wallet Saver: the allocation / ledger engine of the single React        *)
(* component WalletSaver (src/wallet_saver_starter_react_single_file.jsx). *)
(*                                                                         *)
(* State is the four useState cells (income, categories, transactions,     *)
(* goals), the localStorage keys they are mirrored to, the file written by *)
(* Export, and the FileReader read that Import leaves in flight.           *)
(*                                                                         *)
(* Numbers.  Amounts and income are integers.  A percent is a JS number    *)
(* typed into <input type="number">, so it may be fractional or negative;  *)
(* the field percent holds the percent in units of 1/Denom (percent = 3    *)
(* with Denom = 2 is 1.5 %).  Math.round and Math.floor are computed       *)
(* exactly on the rationals.                                               *)
(*                                                                         *)
(* Rendering.  Every user event runs the handler of the latest render,     *)
(* then React renders once (automatic batching) and runs the effects whose *)
(* dependency changed; an action below is the handler together with those  *)
(* effects.  Only reader.onload runs later than the render that made it,   *)
(* with the income/categories/transactions/goals of that render in its     *)
(* closure.                                                                *)
(***************************************************************************)
EXTENDS Integers, Sequences, FiniteSets, TLC

VARIABLES
    income,        \* useState: monthly income
    categories,    \* useState: sequence of [id, name, percent, balance]
    transactions,  \* useState: sequence of [amount, categoryId], newest first
    goals,         \* useState: sequence of [id, targetAmount, saved]
    ls,            \* localStorage: ws_income, ws_categories, ws_tx, ws_goals
    uidCat,        \* number of category ids uid("cat") has handed out
    uidGoal,       \* number of goal ids uid("g") has handed out
    file,          \* the document last written by Export (NoFile: none yet)
    pending,       \* FileReader reads in flight: [doc, closure] or NoRead
    lastOp         \* history: the operation that produced this state

vars == <<income, categories, transactions, goals, ls, uidCat, uidGoal,
          file, pending, lastOp>>

----------------------------------------------------------------------------
(* Bounds of the model *)

\* percent is held in units of 1/Denom
Denom == 2
\* categories on screen at once
MaxCats == 3
\* category ids ever handed out
MaxCatUid == 4
\* length of the transaction log
MaxTx == 2
\* goals ever created
MaxGoals == 2

\* names typed into the category name field
NameInputs == {"Bills"}
\* the type select of the transaction form
Types == {"expense", "income"}

----------------------------------------------------------------------------
(* Program constants: the fallbacks of loadLS *)

DefaultIncome == 50000
DefaultCategories ==
    << [id |-> 1, name |-> "Essentials", percent |-> 50 * Denom, balance |-> 0],
       [id |-> 2, name |-> "Savings",    percent |-> 20 * Denom, balance |-> 0],
       [id |-> 3, name |-> "Wants",      percent |-> 30 * Denom, balance |-> 0] >>

\* a categoryId that is null / "" / undefined: `if (categoryId)` is false
NoId == 0
\* no file has been exported yet
NoFile == [text |-> "none"]
\* no FileReader read is in flight
NoRead == [kind |-> "none"]

----------------------------------------------------------------------------
(* Arithmetic *)

Abs(x) == IF x < 0 THEN -x ELSE x
Max(a, b) == IF a >= b THEN a ELSE b
Min(a, b) == IF a <= b THEN a ELSE b

\* Math.floor(n / d) for d > 0
Floor(n, d) == n \div d

\* Math.round(n / d) for d > 0: the nearest integer, halves rounded up
Round(n, d) == (2 * n + d) \div (2 * d)

RECURSIVE SumPercent(_)
\* categories.reduce((s, c) => s + (Number(c.percent) || 0), 0), in 1/Denom
SumPercent(cats) ==
    IF cats = <<>> THEN 0
    ELSE Head(cats).percent + SumPercent(Tail(cats))

RECURSIVE SumBalance(_)
SumBalance(cats) ==
    IF cats = <<>> THEN 0
    ELSE Head(cats).balance + SumBalance(Tail(cats))

RECURSIVE SumSaved(_)
SumSaved(gs) ==
    IF gs = <<>> THEN 0
    ELSE Head(gs).saved + SumSaved(Tail(gs))

----------------------------------------------------------------------------
(* distributeIncome: the category list it hands to setCategories *)

\* an allocation that truncates instead of rounding
AllocatedFloor(p, tp, inc) == Floor(p * inc, Max(tp, Denom))

\* an allocation that takes percent at face value, without normalising
AllocatedOfHundred(p, tp, inc) == Round(p * inc, 100 * Denom)

\* Math.round((p / Math.max(tp, 1)) * income), p and tp in units of 1/Denom
Allocated(p, tp, inc) == Round(p * inc, Max(tp, Denom))

distributeIncome(inc, cats) ==
    LET tp == SumPercent(cats) IN
    IF Len(cats) = 0 THEN cats
    ELSE IF tp = 0
         THEN LET equal == Floor(inc, Len(cats)) IN
              [i \in 1..Len(cats) |-> [cats[i] EXCEPT !.balance = equal]]
         ELSE [i \in 1..Len(cats) |->
                  [cats[i] EXCEPT !.balance = Allocated(cats[i].percent, tp, inc)]]

----------------------------------------------------------------------------
(* localStorage *)

\* the four saveLS effects, each run after the render in which its cell changed
saveLS(i, c, t, g) ==
    [ws_income |-> i, ws_categories |-> c, ws_tx |-> t, ws_goals |-> g]

CatIds(cats) == {cats[i].id : i \in 1..Len(cats)}

\* localStorage before the first save: no key is set
EmptyStore == <<>>

\* loadLS(key, fallback): const v = getItem(key); return v ? JSON.parse(v) : fallback
loadLS(store, key, fallback) ==
    IF key \in DOMAIN store THEN store[key] ELSE fallback

----------------------------------------------------------------------------
(* Sequence helpers: Array.prototype.filter / find / map *)

RECURSIVE RemoveId(_, _)
\* s.filter((c) => c.id !== id)
RemoveId(cats, id) ==
    IF cats = <<>> THEN <<>>
    ELSE IF Head(cats).id # id
         THEN <<Head(cats)>> \o RemoveId(Tail(cats), id)
         ELSE RemoveId(Tail(cats), id)

\* categories.find((cc) => cc.id === id) !== undefined
Found(cats, id) == \E i \in 1..Len(cats) : cats[i].id = id

\* categories.find((cc) => cc.id === id): the first match
Find(cats, id) ==
    cats[CHOOSE i \in 1..Len(cats) :
            /\ cats[i].id = id
            /\ \A j \in 1..(i - 1) : cats[j].id # id]

\* { ...c, ...patch }
Merge(c, patch) ==
    [k \in DOMAIN c |-> IF k \in DOMAIN patch THEN patch[k] ELSE c[k]]

----------------------------------------------------------------------------
(* Startup: the useState initialisers and the effects of the first render *)

\* a startup that shows the persisted balances as they are
MountPersisted(store) ==
    [income |-> loadLS(store, "ws_income", DefaultIncome),
     categories |-> loadLS(store, "ws_categories", DefaultCategories),
     transactions |-> loadLS(store, "ws_tx", <<>>),
     goals |-> loadLS(store, "ws_goals", <<>>)]

Mount(store) ==
    LET i == loadLS(store, "ws_income", DefaultIncome)
        c == loadLS(store, "ws_categories", DefaultCategories)
        t == loadLS(store, "ws_tx", <<>>)
        g == loadLS(store, "ws_goals", <<>>)
    IN  [income |-> i, categories |-> distributeIncome(i, c),
         transactions |-> t, goals |-> g]

Init ==
    LET m == Mount(EmptyStore) IN
    /\ income = m.income
    /\ categories = m.categories
    /\ transactions = m.transactions
    /\ goals = m.goals
    /\ ls = saveLS(m.income, m.categories, m.transactions, m.goals)
    /\ uidCat = Len(DefaultCategories)
    /\ uidGoal = 0
    /\ file = NoFile
    /\ pending = NoRead
    /\ lastOp = [op |-> "mount", changed |-> FALSE]

\* the page is loaded again: state is rebuilt from localStorage, a read in
\* flight dies with the old page
Reload ==
    LET m == Mount(ls) IN
    /\ income' = m.income
    /\ categories' = m.categories
    /\ transactions' = m.transactions
    /\ goals' = m.goals
    /\ ls' = saveLS(m.income, m.categories, m.transactions, m.goals)
    /\ pending' = NoRead
    /\ lastOp' = [op |-> "mount", changed |-> (m.categories # ls.ws_categories)]
    /\ UNCHANGED <<uidCat, uidGoal, file>>

----------------------------------------------------------------------------
(* Allocation engine *)

\* onChange of the income field: setIncome(v), then the [income] effect runs
\* distributeIncome over the categories of the new render.  Setting the value
\* the cell already holds renders nothing.
setIncome(v) ==
    /\ v # income
    /\ income' = v
    /\ categories' = distributeIncome(v, categories)
    /\ ls' = saveLS(income', categories', transactions, goals)
    /\ lastOp' = [op |-> "setIncome"]
    /\ UNCHANGED <<transactions, goals, uidCat, uidGoal, file, pending>>

\* onClick of the Distribute button
Distribute ==
    /\ categories' = distributeIncome(income, categories)
    /\ ls' = saveLS(income, categories', transactions, goals)
    /\ lastOp' = [op |-> "distribute"]
    /\ UNCHANGED <<income, transactions, goals, uidCat, uidGoal, file, pending>>

----------------------------------------------------------------------------
(* Category CRUD *)

addCategory(name) ==
    LET c == [id |-> uidCat + 1, name |-> name, percent |-> 0, balance |-> 0] IN
    /\ categories' = Append(categories, c)
    /\ uidCat' = uidCat + 1
    /\ ls' = saveLS(income, categories', transactions, goals)
    /\ lastOp' = [op |-> "addCategory"]
    /\ UNCHANGED <<income, transactions, goals, uidGoal, file, pending>>

\* an edit after which the categories are distributed again
updateCategoryThenDistribute(id, patch) ==
    /\ categories' =
          distributeIncome(income,
              [i \in 1..Len(categories) |->
                  IF categories[i].id = id THEN Merge(categories[i], patch)
                  ELSE categories[i]])
    /\ ls' = saveLS(income, categories', transactions, goals)
    /\ lastOp' = [op |-> "updateCategory"]
    /\ UNCHANGED <<income, transactions, goals, uidCat, uidGoal, file, pending>>

updateCategory(id, patch) ==
    /\ categories' =
          [i \in 1..Len(categories) |->
              IF categories[i].id = id THEN Merge(categories[i], patch)
              ELSE categories[i]]
    /\ ls' = saveLS(income, categories', transactions, goals)
    /\ lastOp' = [op |-> "updateCategory"]
    /\ UNCHANGED <<income, transactions, goals, uidCat, uidGoal, file, pending>>

removeCategory(id) ==
    /\ categories' = RemoveId(categories, id)
    /\ ls' = saveLS(income, categories', transactions, goals)
    /\ lastOp' = [op |-> "removeCategory"]
    /\ UNCHANGED <<income, transactions, goals, uidCat, uidGoal, file, pending>>

----------------------------------------------------------------------------
(* Ledger *)

\* a sign rule that trusts the sign of the typed amount
SignedNoAbs(amount, type) == IF type = "expense" THEN -amount ELSE amount

\* type === "expense" ? -Math.abs(amt) : Math.abs(amt)
Signed(amount, type) == IF type = "expense" THEN -Abs(amount) ELSE Abs(amount)

addTransaction(amount, categoryId, type) ==
    LET signed == Signed(amount, type)
        tx == [amount |-> signed, categoryId |-> categoryId]
    IN
    /\ transactions' = <<tx>> \o transactions
    /\ categories' =
          IF categoryId # NoId
          THEN [i \in 1..Len(categories) |->
                   IF categories[i].id = categoryId
                   THEN [categories[i] EXCEPT
                            !.balance = Max(0, categories[i].balance + signed)]
                   ELSE categories[i]]
          ELSE categories
    /\ ls' = saveLS(income, categories', transactions', goals)
    /\ lastOp' = [op |-> "addTransaction", amount |-> amount,
                  categoryId |-> categoryId, type |-> type]
    /\ UNCHANGED <<income, goals, uidCat, uidGoal, file, pending>>

----------------------------------------------------------------------------
(* Goal transfer *)

\* a transfer that ignores the target and moves the whole balance
TransferAll(balance, targetAmount) == balance

\* Math.min(c.balance, g.targetAmount)
Transfer(balance, targetAmount) == Min(balance, targetAmount)

createGoal(targetAmount, fromCategoryId) ==
    LET g == [id |-> uidGoal + 1, targetAmount |-> targetAmount, saved |-> 0]
        funded == /\ fromCategoryId # NoId
                  /\ Found(categories, fromCategoryId)
                  /\ Find(categories, fromCategoryId).balance > 0
        transfer == Transfer(Find(categories, fromCategoryId).balance, g.targetAmount)
        added == Append(goals, g)
    IN
    /\ uidGoal' = uidGoal + 1
    /\ IF funded
       THEN /\ categories' =
                  [i \in 1..Len(categories) |->
                      IF categories[i].id = fromCategoryId
                      THEN [categories[i] EXCEPT !.balance = @ - transfer]
                      ELSE categories[i]]
            /\ goals' =
                  [i \in 1..Len(added) |->
                      IF added[i].id = g.id
                      THEN [added[i] EXCEPT !.saved = @ + transfer]
                      ELSE added[i]]
       ELSE /\ categories' = categories
            /\ goals' = added
    /\ ls' = saveLS(income, categories', transactions, goals')
    /\ lastOp' = [op |-> "createGoal", targetAmount |-> targetAmount,
                  fromCategoryId |-> fromCategoryId]
    /\ UNCHANGED <<income, transactions, uidCat, file, pending>>

----------------------------------------------------------------------------------------------------------------------------------------------------
(* Snapshot: Export / Import *)

Fields == {"income", "categories", "transactions", "goals"}

\* a file that is not JSON: JSON.parse throws
Garbage == [text |-> "garbage"]

\* JSON.stringify(payload, null, 2): the text of an object with payload's keys
stringify(payload) == [text |-> "json", obj |-> payload]

\* a parser that yields an empty object instead of throwing
parseLenient(content) ==
    [ok |-> TRUE, value |-> IF content.text = "json" THEN content.obj ELSE <<>>]

\* JSON.parse(text): the object, or the exception
parse(content) ==
    IF content.text = "json"
    THEN [ok |-> TRUE, value |-> content.obj]
    ELSE [ok |-> FALSE]

\* parsed.key ?? fallback
Nullish(obj, key, fallback) ==
    IF key \in DOMAIN obj THEN obj[key] ELSE fallback

\* an exported file from which the user has deleted all keys but those of F
Restrict(content, F) == [text |-> "json", obj |-> [k \in F |-> content.obj[k]]]

exportData ==
    /\ file' = stringify([income |-> income, categories |-> categories,
                          transactions |-> transactions, goals |-> goals])
    /\ lastOp' = [op |-> "exportData"]
    /\ UNCHANGED <<income, categories, transactions, goals, ls, uidCat, uidGoal,
                   pending>>

\* onChange of the file input: reader.readAsText(file) starts; reader.onload
\* holds the cells of this render
importData(content) ==
    /\ pending = NoRead
    /\ pending' = [kind |-> "read", content |-> content, income |-> income,
                   categories |-> categories, transactions |-> transactions,
                   goals |-> goals]
    /\ lastOp' = [op |-> "importData"]
    /\ UNCHANGED <<income, categories, transactions, goals, ls, uidCat, uidGoal,
                   file>>

\* reader.onload: the four setters are batched into one render, after which the
\* [income] effect runs distributeIncome if the income cell changed
onload ==
    LET r == parse(pending.content)
        i == Nullish(r.value, "income", pending.income)
        c == Nullish(r.value, "categories", pending.categories)
        t == Nullish(r.value, "transactions", pending.transactions)
        g == Nullish(r.value, "goals", pending.goals)
    IN
    /\ pending # NoRead
    /\ pending' = NoRead
    /\ IF r.ok
       THEN /\ income' = i
            /\ categories' = IF i # income THEN distributeIncome(i, c) ELSE c
            /\ transactions' = t
            /\ goals' = g
            /\ ls' = saveLS(income', categories', transactions', goals')
            /\ lastOp' = [op |-> "onload", alert |-> FALSE]
       ELSE /\ UNCHANGED <<income, categories, transactions, goals, ls>>
            /\ lastOp' = [op |-> "onload", alert |-> TRUE]
    /\ UNCHANGED <<uidCat, uidGoal, file>>

----------------------------------------------------------------------------
(* Inputs and next-state relations *)

\* a category id an operation may be handed: one on screen, one that was
\* removed, or none
IdInputs == 0..uidCat

\* Allocation: income and percent edits over the whole range of total percent
AllocIncomes == {-6, 9}
\* in units of 1/Denom: -1 %, 0 %, 1/Denom %
AllocPercents == {-Denom, 0, 1}

AllocNext ==
    \/ Distribute
    \/ \E v \in AllocIncomes : setIncome(v)
    \/ \E id \in CatIds(categories) : removeCategory(id)
    \/ /\ Len(categories) < MaxCats
       /\ uidCat < MaxCatUid
       /\ \E n \in NameInputs : addCategory(n)
    \/ \E id \in CatIds(categories), p \in AllocPercents :
          updateCategory(id, [percent |-> p])
    \/ Reload

SpecAlloc == Init /\ [][AllocNext]_vars

\* Ledger: transactions of every sign against every kind of category id
LedgerIncomes == {-6, 9}
LedgerAmounts == {-7, 0, 4}

LedgerNext ==
    \/ \E v \in LedgerIncomes : setIncome(v)
    \/ \E id \in CatIds(categories) : removeCategory(id)
    \/ /\ Len(transactions) < MaxTx
       /\ \E a \in LedgerAmounts, id \in IdInputs, ty \in Types :
             addTransaction(a, id, ty)

SpecLedger == Init /\ [][LedgerNext]_vars

\* Goals: funding from balances above, at and below the target
GoalIncomes == {0, 9}
GoalTargets == {-5, 3}

GoalNext ==
    \/ \E v \in GoalIncomes : setIncome(v)
    \/ \E id \in CatIds(categories) : removeCategory(id)
    \/ /\ uidGoal < MaxGoals
       /\ \E t \in GoalTargets, id \in IdInputs : createGoal(t, id)

SpecGoal == Init /\ [][GoalNext]_vars

\* A session: spending, saving and reloading the page
Incomes == {-6, 9}
AmountInputs == {7}
TargetInputs == {3}

Next ==
    \/ \E v \in Incomes : setIncome(v)
    \/ Distribute
    \/ \E id \in CatIds(categories) : removeCategory(id)
    \/ /\ Len(transactions) < MaxTx
       /\ \E a \in AmountInputs, id \in CatIds(categories) :
             addTransaction(a, id, "expense")
    \/ /\ uidGoal < MaxGoals
       /\ \E t \in TargetInputs, id \in CatIds(categories) : createGoal(t, id)
    \/ Reload

Spec == Init /\ [][Next]_vars

\* Snapshot: export, edits, and imports whose read completes later
SnapIncomes == {9}
SnapPercents == {1}
SnapAmounts == {30000}
SnapTargets == {3}
\* the keys left in an exported file that the user has edited
Keeps == {Fields, {"income"}, {"categories"}}
\* a JSON file that holds none of the four keys
EmptyObject == stringify(<<>>)

SnapNext ==
    \/ \E v \in SnapIncomes : setIncome(v)
    \/ \E p \in SnapPercents : updateCategory(1, [percent |-> p])
    \/ /\ transactions = <<>>
       /\ \E a \in SnapAmounts : addTransaction(a, 1, "expense")
    \/ /\ uidGoal = 0
       /\ \E t \in SnapTargets : createGoal(t, 1)
    \/ exportData
    \/ /\ file # NoFile
       /\ \E F \in Keeps : importData(Restrict(file, F))
    \/ \E content \in {EmptyObject, Garbage} : importData(content)
    \/ onload

SpecSnapshot == Init /\ [][SnapNext]_vars

----------------------------------------------------------------------------
(* Properties *)

DistributionStep == lastOp'.op \in {"distribute", "setIncome"}

\* the categories of new are those of old, in order, but for their balances
SameButBalance(old, new) ==
    /\ Len(new) = Len(old)
    /\ \A i \in 1..Len(old) :
          /\ new[i].id = old[i].id
          /\ new[i].name = old[i].name
          /\ new[i].percent = old[i].percent

\* C1: in every reachable state the balance of every category is >= 0.
C1_BalanceNonNegative ==
    \A i \in 1..Len(categories) : categories[i].balance >= 0

C3_AddTransaction ==
    [][lastOp'.op = "addTransaction" =>
        LET A == lastOp'.amount
            cid == lastOp'.categoryId
            s == IF lastOp'.type = "expense" THEN -Abs(A) ELSE Abs(A)
        IN  /\ Head(transactions').amount = s
            /\ Head(transactions').categoryId = cid
            /\ Tail(transactions') = transactions
            /\ Len(categories') = Len(categories)
            /\ \A i \in 1..Len(categories) :
                  categories'[i] =
                     IF cid # NoId /\ categories[i].id = cid
                     THEN [categories[i] EXCEPT
                              !.balance = Max(0, categories[i].balance + s)]
                     ELSE categories[i]]_vars

\* an expense typed with a minus sign has emptied an existing category, and an
\* earlier transaction lies behind it in the log
C3_Witness ==
    /\ lastOp.op = "addTransaction"
    /\ lastOp.type = "expense"
    /\ lastOp.amount < 0
    /\ Len(transactions) = 2
    /\ Head(transactions).amount < 0
    /\ Found(categories, lastOp.categoryId)
    /\ Find(categories, lastOp.categoryId).balance = 0
    /\ \E i \in 1..Len(categories) : categories[i].balance > 0

\* createGoal has been handed the id of a category on screen
GoalStep ==
    /\ lastOp'.op = "createGoal"
    /\ Found(categories, lastOp'.fromCategoryId)

SourceBalance == Find(categories, lastOp'.fromCategoryId).balance

\* one goal is added whose saved is moved, the source category loses moved,
\* and nothing else changes
GoalAdded(moved) ==
    /\ Len(goals') = Len(goals) + 1
    /\ goals'[Len(goals')].saved = moved
    /\ goals'[Len(goals')].targetAmount = lastOp'.targetAmount
    /\ \A i \in 1..Len(goals) : goals'[i] = goals[i]
    /\ Len(categories') = Len(categories)
    /\ \A i \in 1..Len(categories) :
          categories'[i] =
             IF categories[i].id = lastOp'.fromCategoryId
             THEN [categories[i] EXCEPT !.balance = SourceBalance - moved]
             ELSE categories[i]
    /\ SumBalance(categories') + SumSaved(goals')
          = SumBalance(categories) + SumSaved(goals)

\* C4 as stated: createGoal from a category of balance B adds one goal with
\* saved = min(B, target), takes exactly that from the category, keeps the sum
\* of balances and savings, and changes nothing else.
C4_Original ==
    [][GoalStep => GoalAdded(Min(SourceBalance, lastOp'.targetAmount))]_vars

\* C4 amended: the same for a source category of balance B > 0; from a
\* category of balance B <= 0 the goal is added with saved = 0 and nothing is
\* taken.
C4_CreateGoal ==
    [][GoalStep =>
        IF SourceBalance > 0
        THEN GoalAdded(Min(SourceBalance, lastOp'.targetAmount))
        ELSE GoalAdded(0)]_vars

\* a second goal was funded in full from a category that keeps a rest
C4_Witness ==
    /\ lastOp.op = "createGoal"
    /\ Len(goals) = 2
    /\ goals[2].saved = goals[2].targetAmount
    /\ goals[2].saved > 0
    /\ Found(categories, lastOp.fromCategoryId)
    /\ Find(categories, lastOp.fromCategoryId).balance > 0

\* the read that completes holds a whole exported document
WholeDocument ==
    /\ pending.content.text = "json"
    /\ DOMAIN pending.content.obj = Fields

\* C5: importing an exported document leaves the application in the exported
\* state, whatever state it was in.
C5_RoundTrip ==
    [][(lastOp'.op = "onload" /\ WholeDocument) =>
        /\ income' = pending.content.obj.income
        /\ categories' = pending.content.obj.categories
        /\ transactions' = pending.content.obj.transactions
        /\ goals' = pending.content.obj.goals]_vars

\* C6: when the read of a parsable document completes, each field it holds
\* takes the parsed value and each field it omits keeps the value in memory.
C6_ImportFields ==
    [][(lastOp'.op = "onload" /\ pending.content.text = "json") =>
        LET obj == pending.content.obj IN
        /\ income' = IF "income" \in DOMAIN obj THEN obj.income ELSE income
        /\ categories' = IF "categories" \in DOMAIN obj THEN obj.categories
                         ELSE categories
        /\ transactions' = IF "transactions" \in DOMAIN obj THEN obj.transactions
                           ELSE transactions
        /\ goals' = IF "goals" \in DOMAIN obj THEN obj.goals ELSE goals]_vars

\* C7: a document that does not parse raises the alert and changes no field.
C7_InvalidFile ==
    [][(lastOp'.op = "onload" /\ pending.content = Garbage) =>
        /\ lastOp'.alert
        /\ UNCHANGED <<income, categories, transactions, goals>>]_vars

\* the alert was raised over a state that has moved on since the file was
\* chosen
C7_Witness ==
    /\ lastOp.op = "onload"
    /\ lastOp.alert
    /\ transactions # <<>>
    /\ goals # <<>>

AfterDistribution == lastOp.op \in {"distribute", "setIncome", "mount"}

C10_Startup ==
    /\ lastOp.op = "mount" /\ categories = distributeIncome(income, categories)
    /\ [][lastOp'.op = "mount" =>
            /\ income' = ls.ws_income
            /\ categories' = distributeIncome(ls.ws_income, ls.ws_categories)
            /\ transactions' = ls.ws_tx
            /\ goals' = ls.ws_goals]_vars

\* a reload has replaced balances that spending and saving had moved, and the
\* log and the goal's savings are still there
C10_Witness ==
    /\ lastOp.op = "mount"
    /\ lastOp.changed
    /\ transactions # <<>>
    /\ \E i \in 1..Len(goals) : goals[i].saved > 0

====
